---- MODULE Spec2Model ----
(***************************************************************************)
(* Model of the AetherIQ workflow engine (src/aetheriq/core/workflow.py).  *)
(*                                                                         *)
(* The persistence port is modelled the way the engine uses it: crud.get   *)
(* returns the workflow record, whose tasks carry the status, error and    *)
(* dependencies that get_workflow_status reports; crud.update writes the   *)
(* workflow status; the calls succeed.  The engine runs on one asyncio     *)
(* event loop, so every action below is the code between two suspension    *)
(* points.  CancelledError is a BaseException (setup.py requires Python    *)
(* 3.9 or later), so no 'except Exception' clause catches it.              *)
(*                                                                         *)
(* The retry controller (src/app/services/error_handler.py) is not called  *)
(* by the engine; it has its own variables and its own specification,      *)
(* SpecRetry, in which the engine stays as constructed.                    *)
(***************************************************************************)
EXTENDS Integers, Sequences, FiniteSets, TLC

\* ---- bounds of the model ----
MaxWorkflows == 1
MaxTasks == 2
\* tasks of the workflow whose single execution SpecSchedule follows
MaxRoundTasks == 3
MaxDeps == 1
MaxLoops == 2
\* largest config["max_concurrent_workflows"] an engine is constructed with
MaxCap == 2

\* WorkflowEngine.max_task_retries with the default configuration
max_task_retries == 3
\* largest data version of a workflow row (number of completed tasks whose
\* results the row holds)
MaxVersion == 2
\* nodes of the cluster and the priorities a node registers with
MaxNodes == 2
MaxPriority == 2
\* monitor periods the model follows after the heartbeat key was written
MaxPeriods == 4
\* jobs of the table job_states and the largest max_retries of a job
MaxJobs == 1
MaxJobRetries == 2
\* analytics: events submitted in a behaviour, producers, and the configured
\* batch_size and processing_interval (in ticks)
MaxEvents == 4
MaxProducers == 2
BatchSize == 3
FlushInterval == 2
\* capacity the analytics queue is configured with
QueueCapacity == 3
\* rule and policy rows of the store, and the policies an engine holds at most
MaxRules == 2
MaxPolicies == 1
MaxLoaded == 2
\* default limit of CRUDBase.get_multi
DefaultLimit == 100
\* seconds after which _monitor_heartbeats finds the heartbeat stale, and
\* seconds between two checks of a monitor
HeartbeatTtl == 30
MonitorPeriod == 10

VARIABLES
    max_concurrent_workflows,   \* WorkflowEngine.max_concurrent_workflows (from the config)
    is_running,         \* WorkflowEngine.is_running
    shutdown_called,    \* shutdown() has run (the background tasks are cancelled)
    store,              \* persistence port: workflow id -> workflow record
    active_workflows,   \* WorkflowEngine.active_workflows: workflow id -> execution task (0: no entry)
    execution_tasks,    \* the asyncio tasks running _execute_workflow_tasks
    cancel_from         \* history: "pending" or "running" once cancel_workflow has returned
                        \* success for the workflow while it had that status

\* ---- the retry controller and the tables it reads and writes ----
VARIABLES
    eh_pc,              \* position of the controller call: "idle", "sleep" (suspended in asyncio.sleep), "done"
    pattern,            \* the ErrorPattern of the call
    is_anomaly,         \* what _detect_anomaly returned for the pattern
    strategy,           \* the RetryStrategy of the call
    attempt,            \* iterations of the retry loop that have ended
    delay,              \* local variable delay of the retry loop (milliseconds)
    slept,              \* the arguments of the asyncio.sleep calls of the retry loop, in order
    returned,           \* the record the call returned
    workflows,          \* table workflows: the row of the pattern's workflow
    workflow_checkpoints,   \* table workflow_checkpoints: rows of the workflow by created_at
    error_patterns,     \* table error_patterns
    manual_interventions,   \* table manual_interventions: number of rows
    notifications       \* table notifications: number of rows

\* ---- the failover manager and the keys it keeps in the coordination store ----
VARIABLES
    active_nodes,       \* key failover:active_nodes: the list of node records
    node_role,          \* key failover:node_role
    heartbeat_age,      \* monitor periods (10 s) since key failover:last_heartbeat was written
    fo_pc,              \* per node: "idle", or the role it has decided to write ("primary", "standby")
    job_target,         \* the node the last redistribution of the failed job selected (0: none)
    job_states,         \* table job_states: per job id its row
    recoveries          \* per node: where its recovery of a job stands, and the JobState it read

\* ---- the analytics engine ----
VARIABLES
    is_processing,      \* AnalyticsEngine.is_processing
    processing_queue,   \* AnalyticsEngine.processing_queue
    batch,              \* local variable batch of _process_queue
    wait,               \* flush-interval ticks the worker has waited in its current queue.get
    batch_age,          \* ticks since the first event of the batch was dequeued
    analytics_rows,     \* table analytics, in insertion order
    submitted,          \* per producer: number of events process_data has queued
    background_tasks    \* len(AnalyticsEngine.background_tasks)

\* ---- policy enforcement ----
VARIABLES
    db_rules,           \* table of enforcement rules, by rule id
    db_policies,        \* table of enforcement policies, by policy id
    engine_policies,    \* EnforcementEngine.policies of the service
    active_rules,       \* EnforcementEngine.active_rules of the service, in insertion order
    action_taken        \* what the last evaluate_request returned or raised

engineVars == <<max_concurrent_workflows, is_running, shutdown_called, store, active_workflows, execution_tasks, cancel_from>>
retryVars == <<eh_pc, pattern, is_anomaly, strategy, attempt, delay, slept, returned,
               workflows, workflow_checkpoints, error_patterns, manual_interventions, notifications>>
failoverVars == <<active_nodes, node_role, heartbeat_age, fo_pc, job_target, job_states, recoveries>>
analyticsVars == <<is_processing, processing_queue, batch, wait, batch_age, analytics_rows, submitted,
                  background_tasks>>
enforcementVars == <<db_rules, db_policies, engine_policies, active_rules, action_taken>>
vars == <<engineVars, retryVars, failoverVars, analyticsVars, enforcementVars>>

WorkflowIds == 1..MaxWorkflows
LoopIds == 1..MaxLoops

\* class WorkflowStatus
WorkflowStatus == {"pending", "running", "completed", "failed", "cancelled", "paused"}
\* class TaskStatus
TaskStatus == {"pending", "running", "completed", "failed", "skipped"}
\* the statuses the spec calls terminal
TerminalStatus == {"completed", "failed", "cancelled"}

NoWorkflow == [status |-> "absent", tasks |-> <<>>]
\* the results of gather, by task id; "none" for a task that is not in the
\* round or has not finished
NoResults == [t \in 1..MaxRoundTasks |-> "none"]
NoLoop == [wf |-> 0, pc |-> "none", completed_tasks |-> {}, ready_tasks |-> {}, results |-> NoResults]
\* asyncio.create_task(self._execute_workflow_tasks(workflow)): a task that has not run yet
NewLoop(w) == [wf |-> w, pc |-> "start", completed_tasks |-> {}, ready_tasks |-> {}, results |-> NoResults]
\* an execution task whose cancellation is requested and not yet delivered
CancelledLoop(w) == [wf |-> w, pc |-> "cancelled", completed_tasks |-> {}, ready_tasks |-> {}, results |-> NoResults]

\* dataclass WorkflowTask as create_workflow builds it: status PENDING, no
\* error, retries from the configuration, retry_count 0
WorkflowTask(deps) ==
    [dependencies |-> deps, status |-> "pending", error |-> "none",
     retries |-> max_task_retries, retry_count |-> 0]

\* The dependency lists a caller can submit for a task of an n-task list:
\* ids of tasks of the list (1..n) or an id that is in no list (0).
DepSets(n) == {d \in SUBSET (0..n) : Cardinality(d) <= MaxDeps}

\* The task lists a caller can submit to create_workflow.
TaskLists == UNION {[1..n -> DepSets(n)] : n \in 0..MaxTasks}

Exists(w) == store[w].status # "absent"
TaskIds(w) == DOMAIN store[w].tasks

\* len(self.active_workflows)
ActiveCountOf(act) == Cardinality({w \in WorkflowIds : act[w] # 0})
ActiveCount == ActiveCountOf(active_workflows)

FreeLoopsOf(ex) == {l \in LoopIds : ex[l].pc = "none"}
FreshLoopOf(ex) == CHOOSE l \in FreeLoopsOf(ex) : \A m \in FreeLoopsOf(ex) : l <= m
FreeLoops == FreeLoopsOf(execution_tasks)
FreshLoop == FreshLoopOf(execution_tasks)

FreeWorkflows == {w \in WorkflowIds : ~Exists(w)}
FreshWorkflow == CHOOSE w \in FreeWorkflows : \A v \in FreeWorkflows : w <= v

\* ---- records of the retry controller (src/app/services/error_handler.py) ----
\* Delays are in milliseconds and backoff factors in tenths, so that the
\* products of the retry loops are computed exactly as the floats are.

NoPattern == [error_type |-> "none", severity |-> "none", resolution_status |-> "none"]
NoStrategy == [stage |-> "none", max_retries |-> 0, backoff_factor |-> 0, initial_delay |-> 0, max_delay |-> 0]
NoResult == [status |-> "none", recovery |-> "none"]
\* no row of table workflows has the id of the pattern
NoWorkflowRow == [status |-> "absent", output_data |-> 0]

\* ErrorHandler.__init__: no call in progress
ErrorHandlerInit ==
    /\ eh_pc = "idle"
    /\ pattern = NoPattern
    /\ is_anomaly = FALSE
    /\ strategy = NoStrategy
    /\ attempt = 0
    /\ delay = 0
    /\ slept = <<>>
    /\ returned = NoResult
    /\ manual_interventions = 0
    /\ notifications = 0

Nodes == 1..MaxNodes
Producers == 1..MaxProducers

\* FailoverManager._initialize_failover_state, run by every node: the node
\* list is emptied and the heartbeat key is written
Jobs == 1..MaxJobs
\* no row of the table job_states for the job id
NoJob == [status |-> "absent", retry_count |-> 0, max_retries |-> 0, checkpoint_valid |-> FALSE]
\* no recovery under way on the node
NoRecovery == [pc |-> "idle", job_id |-> 0, retry_count |-> 0]

FailoverInit ==
    /\ active_nodes = <<>>
    /\ node_role = "none"
    /\ heartbeat_age = 0
    /\ fo_pc = [n \in Nodes |-> "idle"]
    /\ job_target = 0
    /\ job_states = [j \in Jobs |-> NoJob]
    /\ recoveries = [n \in Nodes |-> NoRecovery]

\* AnalyticsEngine.__init__
AnalyticsInit ==
    /\ is_processing = FALSE
    /\ processing_queue = <<>>
    /\ batch = <<>>
    /\ wait = 0
    /\ batch_age = 0
    /\ analytics_rows = <<>>
    /\ submitted = [p \in Producers |-> 0]
    /\ background_tasks = 0

\* the engine as constructed with max_concurrent_workflows 1
EnforcementInit ==
    /\ db_rules = [id \in 1..MaxRules |-> [exists |-> FALSE]]
    /\ db_policies = [id \in 1..MaxPolicies |-> [exists |-> FALSE]]
    /\ engine_policies = <<>>
    /\ active_rules = <<>>
    /\ action_taken = "none"

EngineConstructed ==
    /\ max_concurrent_workflows = 1
    /\ is_running = FALSE
    /\ shutdown_called = FALSE
    /\ store = [w \in WorkflowIds |-> NoWorkflow]
    /\ active_workflows = [w \in WorkflowIds |-> 0]
    /\ execution_tasks = [l \in LoopIds |-> NoLoop]
    /\ cancel_from = [w \in WorkflowIds |-> "none"]

\* the retry controller as constructed, with empty tables
ErrorHandlerConstructed ==
    /\ ErrorHandlerInit
    /\ workflows = NoWorkflowRow
    /\ workflow_checkpoints = <<>>
    /\ error_patterns = <<>>

\* WorkflowEngine.__init__; the engine holds no retry controller
Init ==
    /\ max_concurrent_workflows \in 1..MaxCap
    /\ is_running = FALSE
    /\ shutdown_called = FALSE
    /\ store = [w \in WorkflowIds |-> NoWorkflow]
    /\ active_workflows = [w \in WorkflowIds |-> 0]
    /\ execution_tasks = [l \in LoopIds |-> NoLoop]
    /\ cancel_from = [w \in WorkflowIds |-> "none"]
    /\ ErrorHandlerInit
    /\ workflows = NoWorkflowRow
    /\ workflow_checkpoints = <<>>
    /\ error_patterns = <<>>
    /\ FailoverInit
    /\ AnalyticsInit
    /\ EnforcementInit

\* WorkflowEngine.initialize: starts the poller and the monitor
initialize ==
    /\ ~is_running
    /\ ~shutdown_called
    /\ is_running' = TRUE
    /\ UNCHANGED <<max_concurrent_workflows, shutdown_called, store, active_workflows, execution_tasks, cancel_from>>
    /\ UNCHANGED <<retryVars, failoverVars, analyticsVars, enforcementVars>>

\* API calls are served between the startup hook (initialize) and the
\* shutdown hook (shutdown) of the application
Serving == is_running

\* WorkflowEngine.create_workflow: builds the tasks and persists the workflow
\* as PENDING; the task list is not inspected.
create_workflow(tasks) ==
    /\ Serving
    /\ FreeWorkflows # {}
    /\ store' = [store EXCEPT ![FreshWorkflow] =
                    [status |-> "pending",
                     tasks |-> [t \in DOMAIN tasks |-> WorkflowTask(tasks[t])]]]
    /\ UNCHANGED <<max_concurrent_workflows, is_running, shutdown_called, active_workflows, execution_tasks, cancel_from>>
    /\ UNCHANGED <<retryVars, failoverVars, analyticsVars, enforcementVars>>

\* WorkflowEngine.execute_workflow: refuses only when the table of active
\* workflows is full; otherwise creates the execution task and registers it
\* under the workflow id, replacing any entry that is there.
execute_workflow(w) ==
    /\ Serving
    /\ Exists(w)
    /\ IF ActiveCount >= max_concurrent_workflows
       THEN UNCHANGED <<active_workflows, execution_tasks>>
       ELSE /\ FreeLoops # {}
            /\ execution_tasks' = [execution_tasks EXCEPT ![FreshLoop] = NewLoop(w)]
            /\ active_workflows' = [active_workflows EXCEPT ![w] = FreshLoop]
    /\ UNCHANGED <<max_concurrent_workflows, is_running, shutdown_called, store, cancel_from>>
    /\ UNCHANGED <<retryVars, failoverVars, analyticsVars, enforcementVars>>

\* asyncio.Task.cancel() on an execution task: a task that never ran is
\* dropped without entering its try block; a task suspended in gather gets
\* CancelledError delivered later (its children are cancelled with it); a
\* finished task is unaffected.
CancelTask(ex, l) ==
    IF ex[l].pc = "start" THEN [ex EXCEPT ![l] = NoLoop]
    ELSE IF ex[l].pc \in {"dispatched", "gather"} THEN [ex EXCEPT ![l] = CancelledLoop(ex[l].wf)]
    ELSE ex

\* WorkflowEngine.cancel_workflow: acts only on a workflow that has an entry
\* in active_workflows, and returns success in every case.
cancel_workflow(w) ==
    /\ Serving
    /\ Exists(w)
    /\ IF active_workflows[w] # 0
       THEN /\ execution_tasks' = CancelTask(execution_tasks, active_workflows[w])
            /\ active_workflows' = [active_workflows EXCEPT ![w] = 0]
            /\ store' = [store EXCEPT ![w].status = "cancelled"]
       ELSE UNCHANGED <<execution_tasks, active_workflows, store>>
    /\ cancel_from' = [cancel_from EXCEPT ![w] =
            IF store[w].status \in {"pending", "running"} THEN store[w].status ELSE @]
    /\ UNCHANGED <<max_concurrent_workflows, is_running, shutdown_called>>
    /\ UNCHANGED <<retryVars, failoverVars, analyticsVars, enforcementVars>>

\* the ready_tasks comprehension of the scheduling loop
ReadyTasks(tasks, completed) ==
    {t \in DOMAIN tasks : t \notin completed /\ tasks[t].dependencies \subseteq completed}

\* the final status the loop computes when it leaves the while
FinalStatus(tasks) ==
    IF \E t \in DOMAIN tasks : tasks[t].status = "failed" THEN "failed" ELSE "completed"

\* _execute_workflow_tasks from the test of the while to the next await of
\* gather, or to the end of the coroutine (final status and finally block).
Schedule(l, w, status, tasks, completed) ==
    IF Cardinality(completed) < Len(tasks) /\ ReadyTasks(tasks, completed) # {}
    THEN /\ store' = [store EXCEPT ![w] = [status |-> status, tasks |-> tasks]]
         /\ execution_tasks' = [execution_tasks EXCEPT ![l] =
                [wf |-> w, pc |-> "dispatched", completed_tasks |-> completed,
                 ready_tasks |-> ReadyTasks(tasks, completed), results |-> NoResults]]
         /\ UNCHANGED active_workflows
    ELSE /\ store' = [store EXCEPT ![w] = [status |-> FinalStatus(tasks), tasks |-> tasks]]
         /\ execution_tasks' = [execution_tasks EXCEPT ![l] = NoLoop]
         /\ active_workflows' = [active_workflows EXCEPT ![w] = 0]

\* first step of _execute_workflow_tasks: status RUNNING, then the loop
ExecutionTaskStart(l) ==
    /\ execution_tasks[l].pc = "start"
    /\ LET w == execution_tasks[l].wf
       IN Schedule(l, w, "running", store[w].tasks, {})
    /\ UNCHANGED <<max_concurrent_workflows, is_running, shutdown_called, cancel_from>>
    /\ UNCHANGED <<retryVars, failoverVars, analyticsVars, enforcementVars>>

\* first step of the children of gather: each _execute_task sets its task RUNNING
ChildrenStart(l) ==
    /\ execution_tasks[l].pc = "dispatched"
    /\ LET w == execution_tasks[l].wf
           ready == execution_tasks[l].ready_tasks
       IN store' = [store EXCEPT ![w].tasks =
                       [t \in DOMAIN @ |-> IF t \in ready
                                           THEN [@[t] EXCEPT !.status = "running"]
                                           ELSE @[t]]]
    /\ execution_tasks' = [execution_tasks EXCEPT ![l].pc = "gather"]
    /\ UNCHANGED <<max_concurrent_workflows, is_running, shutdown_called, active_workflows, cancel_from>>
    /\ UNCHANGED <<retryVars, failoverVars, analyticsVars, enforcementVars>>

\* outcomes of the handler call under wait_for: it returns, it raises (or no
\* handler is registered for the task type), or the timeout expires
Outcomes == {"ok", "error", "timeout"}

\* what _execute_task leaves in the task for an outcome
TaskAfter(task, outcome) ==
    IF outcome = "ok" THEN [task EXCEPT !.status = "completed"]
    ELSE IF outcome = "timeout" THEN [task EXCEPT !.status = "failed", !.error = "Task execution timed out"]
    ELSE [task EXCEPT !.status = "failed", !.error = "message"]

\* end of one _execute_task: handler returned, raised or timed out
TaskFinish(l, t, outcome) ==
    /\ execution_tasks[l].pc = "gather"
    /\ t \in execution_tasks[l].ready_tasks
    /\ execution_tasks[l].results[t] = "none"
    /\ LET w == execution_tasks[l].wf
       IN store' = [store EXCEPT ![w].tasks[t] = TaskAfter(@, outcome)]
    /\ execution_tasks' = [execution_tasks EXCEPT ![l].results[t] = outcome]
    /\ UNCHANGED <<max_concurrent_workflows, is_running, shutdown_called, active_workflows, cancel_from>>
    /\ UNCHANGED <<retryVars, failoverVars, analyticsVars, enforcementVars>>

\* the loop's processing of one gathered result: str(result) of a
\* TimeoutError is the empty string
TaskProcessed(task, result) ==
    IF result = "ok" THEN [task EXCEPT !.status = "completed"]
    ELSE IF result = "timeout" THEN [task EXCEPT !.status = "failed", !.error = ""]
    ELSE [task EXCEPT !.status = "failed", !.error = "message"]

\* gather returned: process the results of the round and go round the loop
ExecutionTaskResume(l) ==
    /\ execution_tasks[l].pc = "gather"
    /\ \A t \in execution_tasks[l].ready_tasks : execution_tasks[l].results[t] # "none"
    /\ LET w == execution_tasks[l].wf
           ready == execution_tasks[l].ready_tasks
           tasks == [t \in TaskIds(w) |->
                        IF t \in ready
                        THEN TaskProcessed(store[w].tasks[t], execution_tasks[l].results[t])
                        ELSE store[w].tasks[t]]
       IN Schedule(l, w, store[w].status, tasks, execution_tasks[l].completed_tasks \cup ready)
    /\ UNCHANGED <<max_concurrent_workflows, is_running, shutdown_called, cancel_from>>
    /\ UNCHANGED <<retryVars, failoverVars, analyticsVars, enforcementVars>>

\* CancelledError reaches the execution task: only the finally block runs
ExecutionTaskCancelled(l) ==
    /\ execution_tasks[l].pc = "cancelled"
    /\ active_workflows' = [active_workflows EXCEPT ![execution_tasks[l].wf] = 0]
    /\ execution_tasks' = [execution_tasks EXCEPT ![l] = NoLoop]
    /\ UNCHANGED <<max_concurrent_workflows, is_running, shutdown_called, store, cancel_from>>
    /\ UNCHANGED <<retryVars, failoverVars, analyticsVars, enforcementVars>>

\* one pass of the for loop of _process_pending_workflows from workflow w on
RECURSIVE PollFrom(_, _, _)
PollFrom(w, act, ex) ==
    IF w > MaxWorkflows THEN [act |-> act, ex |-> ex]
    ELSE IF /\ store[w].status = "pending"
            /\ ActiveCountOf(act) < max_concurrent_workflows
            /\ FreeLoopsOf(ex) # {}
         THEN PollFrom(w + 1, [act EXCEPT ![w] = FreshLoopOf(ex)],
                              [ex EXCEPT ![FreshLoopOf(ex)] = NewLoop(w)])
         ELSE PollFrom(w + 1, act, ex)

PendingWorkflows == {w \in WorkflowIds : store[w].status = "pending"}

\* one iteration of _process_pending_workflows.  The poller sleeps 5 s between
\* iterations, so the execution tasks it created have taken their first step
\* when it wakes; on a PENDING workflow the iteration has the effect of
\* execute_workflow, which is enabled whenever an execution task created by
\* an API call has not started yet.
process_pending_workflows ==
    /\ is_running
    /\ \A l \in LoopIds : execution_tasks[l].pc # "start"
    /\ Cardinality(FreeLoops) >= Cardinality(PendingWorkflows)
    /\ active_workflows' = PollFrom(1, active_workflows, execution_tasks).act
    /\ execution_tasks' = PollFrom(1, active_workflows, execution_tasks).ex
    /\ UNCHANGED <<max_concurrent_workflows, is_running, shutdown_called, store, cancel_from>>
    /\ UNCHANGED <<retryVars, failoverVars, analyticsVars, enforcementVars>>

RECURSIVE CancelAll(_, _)
CancelAll(w, ex) ==
    IF w > MaxWorkflows THEN ex
    ELSE IF active_workflows[w] # 0 THEN CancelAll(w + 1, CancelTask(ex, active_workflows[w]))
    ELSE CancelAll(w + 1, ex)

\* WorkflowEngine.shutdown: cancels the registered execution tasks and the
\* background tasks; no status is written.
shutdown ==
    /\ is_running
    /\ is_running' = FALSE
    /\ shutdown_called' = TRUE
    /\ execution_tasks' = CancelAll(1, execution_tasks)
    /\ UNCHANGED <<max_concurrent_workflows, store, active_workflows, cancel_from>>
    /\ UNCHANGED <<retryVars, failoverVars, analyticsVars, enforcementVars>>

Next ==
    \/ initialize
    \/ \E tasks \in TaskLists : create_workflow(tasks)
    \/ process_pending_workflows
    \/ \E w \in WorkflowIds : execute_workflow(w)
    \/ \E w \in WorkflowIds : cancel_workflow(w)
    \/ \E l \in LoopIds : ExecutionTaskStart(l)
    \/ \E l \in LoopIds : ChildrenStart(l)
    \/ \E l \in LoopIds, t \in 1..MaxTasks, o \in Outcomes : TaskFinish(l, t, o)
    \/ \E l \in LoopIds : ExecutionTaskResume(l)
    \/ \E l \in LoopIds : ExecutionTaskCancelled(l)
    \/ shutdown

Spec == Init /\ [][Next]_vars

\* sanity of the model's state
TypeOK ==
    /\ max_concurrent_workflows \in 1..MaxCap
    /\ is_running \in BOOLEAN
    /\ shutdown_called \in BOOLEAN
    /\ \A w \in WorkflowIds :
        /\ store[w].status \in WorkflowStatus \cup {"absent"}
        /\ \A t \in TaskIds(w) : store[w].tasks[t].status \in TaskStatus
        /\ active_workflows[w] \in 0..MaxLoops
        /\ (Serving /\ active_workflows[w] # 0) =>
              /\ execution_tasks[active_workflows[w]].wf = w
              /\ execution_tasks[active_workflows[w]].pc \in {"start", "dispatched", "gather"}
    /\ \A l \in LoopIds : execution_tasks[l].pc \in {"none", "start", "dispatched", "gather", "cancelled"}
    /\ eh_pc \in {"idle", "sleep", "done"}
    /\ is_anomaly \in BOOLEAN
    /\ attempt \in Nat /\ delay \in Nat /\ manual_interventions \in Nat /\ notifications \in Nat
    /\ workflows.status \in {"absent", "running", "failed", "recovering"}
    /\ workflows.output_data \in 0..(MaxVersion + 1)

\* ------------------------------------------------------------------------
\* The retry controller: ErrorHandler (src/app/services/error_handler.py)
\* and the endpoints that call it (src/app/api/errors.py).  A call runs on
\* the event loop; its only suspension point is the asyncio.sleep of the
\* retry loops.  Every call of the database session may raise.
\* ------------------------------------------------------------------------

Severities == {"critical", "high", "medium", "low"}

\* type(error).__name__ of the errors a caller reports: the five names of the
\* severity rules, a permission error and one other error
ErrorTypes == {"ConnectionError", "TimeoutError", "ValueError", "KeyError",
               "TypeError", "PermissionError", "RuntimeError"}

\* ErrorHandler._determine_severity: lookup in severity_rules, default medium
determine_severity(error_type) ==
    CASE error_type = "ConnectionError" -> "high"
      [] error_type = "TimeoutError" -> "medium"
      [] error_type = "ValueError" -> "low"
      [] error_type = "KeyError" -> "medium"
      [] error_type = "TypeError" -> "low"
      [] OTHER -> "medium"

\* class RetryStrategy (the conditions field only repeats the inputs)
RetryStrategy(stage, max_retries, backoff_factor, initial_delay, max_delay) ==
    [stage |-> stage, max_retries |-> max_retries, backoff_factor |-> backoff_factor,
     initial_delay |-> initial_delay, max_delay |-> max_delay]

\* variant: the strategy of severity high with the retry count of critical
get_retry_strategy_three_retries(severity, anomaly) ==
    IF severity = "critical" THEN RetryStrategy("immediate", 3, 15, 1000, 30000)
    ELSE IF severity = "high" THEN RetryStrategy("delayed", 3, 20, 5000, 300000)
    ELSE RetryStrategy("manual", 1, 10, 0, 0)

\* ErrorHandler._get_retry_strategy: by severity alone; is_anomaly is copied
\* into the conditions and decides nothing
get_retry_strategy(severity, anomaly) ==
    IF severity = "critical" THEN RetryStrategy("immediate", 3, 15, 1000, 30000)
    ELSE IF severity = "high" THEN RetryStrategy("delayed", 5, 20, 5000, 300000)
    ELSE RetryStrategy("manual", 1, 10, 0, 0)

Min(a, b) == IF a <= b THEN a ELSE b

\* variant: the delay is not increased
BackoffNone(d, strat) == d

\* delay = min(delay * strategy.backoff_factor, strategy.max_delay)
Backoff(d, strat) == Min((d * strat.backoff_factor) \div 10, strat.max_delay)

\* ErrorHandler._restore_from_checkpoint: the latest checkpoint, if there is
\* one, is written over the data of the row
restore_from_checkpoint(wf, cps, db_ok) ==
    IF cps = <<>> \/ ~db_ok
    THEN [success |-> FALSE, workflow |-> wf]
    ELSE [success |-> TRUE, workflow |-> [wf EXCEPT !.output_data = cps[Len(cps)]]]

\* ErrorHandler._recover_workflow_state: status 'recovering' (committed),
\* restore, status 'running' if the restore succeeded
recover_workflow_state(wf, cps, update_ok, restore_ok, running_ok) ==
    IF ~update_ok THEN [success |-> FALSE, workflow |-> wf]
    ELSE LET restored == restore_from_checkpoint([wf EXCEPT !.status = "recovering"], cps, restore_ok)
         IN IF restored.success /\ running_ok
            THEN [success |-> TRUE, workflow |-> [restored.workflow EXCEPT !.status = "running"]]
            ELSE [success |-> FALSE, workflow |-> restored.workflow]

\* ErrorHandler._attempt_recovery: _update_error_pattern_status reads
\* pattern.id, which ErrorPattern does not have, and writes nothing
attempt_recovery(wf, cps, found, update_ok, restore_ok, running_ok) ==
    IF wf.status = "absent" \/ ~found
    THEN [success |-> FALSE, workflow |-> wf]
    ELSE recover_workflow_state(wf, cps, update_ok, restore_ok, running_ok)

\* the record handle_error returns after _execute_retry_strategy returned
SuccessRecord(recovery) == [status |-> "success", recovery |-> recovery]

\* variant: no except clause, the exception reaches the caller
ExceptionPropagates == [status |-> "raised", recovery |-> "none"]

\* the record of the except clause of handle_error
ErrorRecord == [status |-> "error", recovery |-> "none"]

\* _execute_immediate_retry and _execute_delayed_retry up to the first
\* asyncio.sleep(delay)
BeginRetry(strat) ==
    /\ delay' = strat.initial_delay
    /\ attempt' = 0
    /\ IF strat.max_retries > 0
       THEN /\ slept' = <<strat.initial_delay>>
            /\ eh_pc' = "sleep"
            /\ UNCHANGED returned
       ELSE /\ eh_pc' = "done"
            /\ returned' = SuccessRecord("failed")
            /\ UNCHANGED slept
    /\ UNCHANGED <<workflows, manual_interventions, notifications>>

\* ErrorHandler._execute_manual_retry: _log_manual_intervention reads
\* pattern.id and inserts nothing; _send_notification inserts one row when
\* it finds the workflow and the session does not fail
execute_manual_retry ==
    /\ manual_interventions' = manual_interventions
    /\ \E sent \in BOOLEAN :
          notifications' = IF workflows.status # "absent" /\ sent
                           THEN notifications + 1 ELSE notifications
    /\ returned' = SuccessRecord("manual_intervention_required")
    /\ eh_pc' = "done"
    /\ UNCHANGED <<attempt, delay, slept, workflows>>

\* ErrorHandler._execute_retry_strategy
execute_retry_strategy(strat) ==
    IF strat.stage \in {"immediate", "delayed"} THEN BeginRetry(strat) ELSE execute_manual_retry

\* ErrorHandler.handle_error.  context_ok: the ErrorPattern can be built from
\* the arguments (otherwise the constructor raises inside the try).
handle_error(error_type, anomaly, context_ok) ==
    /\ eh_pc = "idle"
    /\ IF ~context_ok
       THEN /\ returned' = ErrorRecord
            /\ eh_pc' = "done"
            /\ UNCHANGED <<pattern, is_anomaly, strategy, attempt, delay, slept, workflows,
                           error_patterns, manual_interventions, notifications>>
       ELSE LET sev == determine_severity(error_type)
                pat == [error_type |-> error_type, severity |-> sev, resolution_status |-> "pending"]
                strat == get_retry_strategy(sev, anomaly)
            IN /\ pattern' = pat
               /\ is_anomaly' = anomaly
               /\ strategy' = strat
               /\ \E logged \in BOOLEAN :
                     error_patterns' = IF logged THEN Append(error_patterns, pat) ELSE error_patterns
               /\ execute_retry_strategy(strat)
    /\ UNCHANGED <<engineVars, failoverVars, analyticsVars, enforcementVars, workflow_checkpoints>>

\* endpoint retry_error_pattern: the stored pattern i is retried with
\* is_anomaly False
retry_error_pattern(i) ==
    /\ eh_pc = "idle"
    /\ i \in DOMAIN error_patterns
    /\ pattern' = [error_patterns[i] EXCEPT !.resolution_status = "pending"]
    /\ is_anomaly' = FALSE
    /\ strategy' = get_retry_strategy(error_patterns[i].severity, FALSE)
    /\ execute_retry_strategy(get_retry_strategy(error_patterns[i].severity, FALSE))
    /\ UNCHANGED <<engineVars, failoverVars, analyticsVars, enforcementVars, workflow_checkpoints, error_patterns>>

\* one iteration of the retry loop from the end of asyncio.sleep: the
\* recovery attempt (which may raise), then the return, the next sleep or
\* the end of the loop
RetryIteration ==
    /\ eh_pc = "sleep"
    /\ \E raises, found, update_ok, restore_ok, running_ok \in BOOLEAN :
        LET recovery == IF raises THEN [success |-> FALSE, workflow |-> workflows]
                        ELSE attempt_recovery(workflows, workflow_checkpoints,
                                              found, update_ok, restore_ok, running_ok)
        IN /\ workflows' = recovery.workflow
           /\ IF recovery.success
              THEN /\ returned' = SuccessRecord("success")
                   /\ eh_pc' = "done"
                   /\ UNCHANGED <<attempt, delay, slept>>
              ELSE /\ delay' = Backoff(delay, strategy)
                   /\ attempt' = attempt + 1
                   /\ IF attempt + 1 < strategy.max_retries
                      THEN /\ slept' = Append(slept, Backoff(delay, strategy))
                           /\ UNCHANGED <<eh_pc, returned>>
                      ELSE /\ eh_pc' = "done"
                           /\ returned' = SuccessRecord("failed")
                           /\ UNCHANGED slept
    /\ UNCHANGED <<engineVars, failoverVars, analyticsVars, enforcementVars, pattern, is_anomaly, strategy, workflow_checkpoints,
                   error_patterns, manual_interventions, notifications>>

\* The tables when an error is reported: the workflow row (if any) holds the
\* results of output_data completed tasks, a checkpoint holds the data of
\* an earlier or the same moment, and a pattern may be stored.
InitRetry ==
    /\ max_concurrent_workflows = 1
    /\ is_running = FALSE
    /\ shutdown_called = FALSE
    /\ store = [w \in WorkflowIds |-> NoWorkflow]
    /\ active_workflows = [w \in WorkflowIds |-> 0]
    /\ execution_tasks = [l \in LoopIds |-> NoLoop]
    /\ cancel_from = [w \in WorkflowIds |-> "none"]
    /\ ErrorHandlerInit
    /\ workflows \in {NoWorkflowRow} \cup
          {[status |-> s, output_data |-> d] : s \in {"running", "failed"}, d \in 0..MaxVersion}
    /\ workflow_checkpoints \in {<<>>} \cup {<<c>> : c \in 0..workflows.output_data}
    /\ error_patterns \in {<<>>} \cup
          {<<[error_type |-> e, severity |-> s, resolution_status |-> "pending"]>> :
              e \in ErrorTypes, s \in Severities}
    /\ FailoverInit
    /\ AnalyticsInit
    /\ EnforcementInit

NextRetry ==
    \/ \E e \in ErrorTypes, anomaly \in BOOLEAN, context_ok \in BOOLEAN : handle_error(e, anomaly, context_ok)
    \/ \E i \in DOMAIN error_patterns : retry_error_pattern(i)
    \/ RetryIteration

SpecRetry == InitRetry /\ [][NextRetry]_vars

\* ------------------------------------------------------------------------
\* One workflow of MaxRoundTasks tasks with an acyclic task list, created on
\* a running engine; the behaviours are its executions.
\* ------------------------------------------------------------------------

\* task lists without dangling dependency in which every task depends on
\* earlier tasks of the list only
RoundLists ==
    {f \in [1..MaxRoundTasks -> DepSets(MaxRoundTasks)] :
        \A t \in 1..MaxRoundTasks : \A d \in f[t] : d >= 1 /\ d < t}

InitSchedule ==
    /\ max_concurrent_workflows = 1
    /\ is_running = TRUE
    /\ shutdown_called = FALSE
    /\ \E f \in RoundLists :
          store = [w \in WorkflowIds |->
                      [status |-> "pending", tasks |-> [t \in DOMAIN f |-> WorkflowTask(f[t])]]]
    /\ active_workflows = [w \in WorkflowIds |-> 0]
    /\ execution_tasks = [l \in LoopIds |-> NoLoop]
    /\ cancel_from = [w \in WorkflowIds |-> "none"]
    /\ ErrorHandlerConstructed
    /\ FailoverInit
    /\ AnalyticsInit
    /\ EnforcementInit

NextSchedule ==
    \/ \E w \in WorkflowIds : execute_workflow(w)
    \/ \E l \in LoopIds : ExecutionTaskStart(l)
    \/ \E l \in LoopIds : ChildrenStart(l)
    \/ \E l \in LoopIds, t \in 1..MaxRoundTasks, o \in Outcomes : TaskFinish(l, t, o)
    \/ \E l \in LoopIds : ExecutionTaskResume(l)

SpecSchedule == InitSchedule /\ [][NextSchedule]_vars

\* ------------------------------------------------------------------------
\* The failover manager: FailoverManager (src/app/services/failover.py).
\* Every node runs one; the nodes are separate processes that share the
\* keys of the coordination store, so a step of a node is one access to
\* the store together with the local computation around it.  Loads are in
\* tenths.
\* ------------------------------------------------------------------------

Loads == {2, 5, 9}
Priorities == 1..MaxPriority
\* capabilities.get(job.workflow_id, 0) of a node record
Capabilities == {0, 1}

\* A node record as a node registers it: with the keys status ("active"),
\* url and priority that the manager reads and never writes.
RegisteredNode(n, priority, load, capability) ==
    [node_id |-> n, role |-> "standby", load |-> load, priority |-> priority,
     capability |-> capability, registered |-> TRUE]

\* current_node of _update_node_status: node_id, role, load, capabilities
\* and no other key
StatusRecord(n, role, load, capability) ==
    [node_id |-> n, role |-> role, load |-> load, priority |-> 0,
     capability |-> capability, registered |-> FALSE]

InRoster(nodes, n) == \E i \in DOMAIN nodes : nodes[i].node_id = n
IndexOf(nodes, n) == CHOOSE i \in DOMAIN nodes :
                        nodes[i].node_id = n /\ \A j \in DOMAIN nodes : nodes[j].node_id = n => i <= j
Entry(nodes, n) == nodes[IndexOf(nodes, n)]

\* key=lambda x: (x["priority"], -x["load"]), ascending
PrimaryKeyLess(a, b) ==
    \/ a.priority < b.priority
    \/ a.priority = b.priority /\ a.load > b.load

\* sorted(nodes, key=...)[0]: the first record of the list among those with
\* the smallest key (the sort is stable)
FirstByPrimaryKey(nodes) ==
    CHOOSE i \in DOMAIN nodes :
        /\ \A j \in DOMAIN nodes : ~PrimaryKeyLess(nodes[j], nodes[i])
        /\ \A j \in DOMAIN nodes : (j < i) => PrimaryKeyLess(nodes[i], nodes[j])

\* FailoverManager._should_become_primary: False when the list is empty
\* (IndexError) or a record has no priority (KeyError)
should_become_primary(nodes, n) ==
    IF nodes = <<>> \/ \E i \in DOMAIN nodes : ~nodes[i].registered
    THEN FALSE
    ELSE nodes[FirstByPrimaryKey(nodes)].node_id = n

\* FailoverManager._update_node_status: the record of the node is replaced
\* or appended
update_node_status(nodes, rec) ==
    IF InRoster(nodes, rec.node_id)
    THEN [nodes EXCEPT ![IndexOf(nodes, rec.node_id)] = rec]
    ELSE Append(nodes, rec)

RECURSIVE SelectSeq2(_, _)
\* the list comprehension of _get_available_nodes
SelectSeq2(nodes, i) ==
    IF i > Len(nodes) THEN <<>>
    ELSE IF nodes[i].load < 8 THEN <<nodes[i]>> \o SelectSeq2(nodes, i + 1)
    ELSE SelectSeq2(nodes, i + 1)

\* FailoverManager._get_available_nodes: status active and load < 0.8; a
\* record without status makes the comprehension raise (empty result)
get_available_nodes(nodes) ==
    IF \E i \in DOMAIN nodes : ~nodes[i].registered THEN <<>>
    ELSE SelectSeq2(nodes, 1)

\* key=lambda x: (x["load"], -x["capabilities"].get(job.workflow_id, 0))
TargetKeyLess(a, b) ==
    \/ a.load < b.load
    \/ a.load = b.load /\ a.capability > b.capability

\* sorted(available_nodes, key=...)[0]
FirstByTargetKey(nodes) ==
    CHOOSE i \in DOMAIN nodes :
        /\ \A j \in DOMAIN nodes : ~TargetKeyLess(nodes[j], nodes[i])
        /\ \A j \in DOMAIN nodes : (j < i) => TargetKeyLess(nodes[i], nodes[j])

\* FailoverManager._select_target_node
select_target_node(available) == available[FirstByTargetKey(available)]

\* datetime.utcnow() - last_heartbeat > timedelta(seconds=30)
Stale == heartbeat_age * MonitorPeriod > HeartbeatTtl

\* construction of a FailoverManager on a node (every endpoint of
\* src/app/api/failover.py constructs one)
initialize_failover_state ==
    /\ active_nodes' = <<>>
    /\ heartbeat_age' = 0
    /\ UNCHANGED <<node_role, fo_pc, job_target, job_states, recoveries>>
    /\ UNCHANGED <<engineVars, retryVars, analyticsVars, enforcementVars>>

\* one monitor period passes; no code writes the heartbeat key again
HeartbeatPeriod ==
    /\ heartbeat_age < MaxPeriods
    /\ heartbeat_age' = heartbeat_age + 1
    /\ UNCHANGED <<active_nodes, node_role, fo_pc, job_target, job_states, recoveries>>
    /\ UNCHANGED <<engineVars, retryVars, analyticsVars, enforcementVars>>

\* a node joins the cluster: it writes its record into the node list
register_node(n, priority, load, capability) ==
    /\ ~InRoster(active_nodes, n)
    /\ active_nodes' = Append(active_nodes, RegisteredNode(n, priority, load, capability))
    /\ UNCHANGED <<node_role, heartbeat_age, fo_pc, job_target, job_states, recoveries>>
    /\ UNCHANGED <<engineVars, retryVars, analyticsVars, enforcementVars>>

\* _monitor_heartbeats of node n finds the heartbeat stale;
\* _initiate_failover reads the node list and decides the role
monitor_heartbeats(n) ==
    /\ fo_pc[n] = "idle"
    /\ Stale
    /\ fo_pc' = [fo_pc EXCEPT ![n] =
                    IF should_become_primary(active_nodes, n) THEN "primary" ELSE "standby"]
    /\ UNCHANGED <<active_nodes, node_role, heartbeat_age, job_target, job_states, recoveries>>
    /\ UNCHANGED <<engineVars, retryVars, analyticsVars, enforcementVars>>

\* _initiate_failover of node n writes the role it decided:
\* _update_node_status sets both keys without any condition
initiate_failover(n, load, capability) ==
    /\ fo_pc[n] # "idle"
    /\ node_role' = fo_pc[n]
    /\ active_nodes' = update_node_status(active_nodes, StatusRecord(n, fo_pc[n], load, capability))
    /\ fo_pc' = [fo_pc EXCEPT ![n] = "idle"]
    /\ UNCHANGED <<heartbeat_age, job_target, job_states, recoveries>>
    /\ UNCHANGED <<engineVars, retryVars, analyticsVars, enforcementVars>>

\* _recover_failed_jobs of a node finds the failed job and redistributes it:
\* _redistribute_job selects the target among the available nodes
recover_failed_jobs(n) ==
    /\ job_target' = IF get_available_nodes(active_nodes) = <<>> THEN 0
                     ELSE select_target_node(get_available_nodes(active_nodes)).node_id
    /\ UNCHANGED <<active_nodes, node_role, heartbeat_age, fo_pc, job_states, recoveries>>
    /\ UNCHANGED <<engineVars, retryVars, analyticsVars, enforcementVars>>

InitFailover ==
    /\ EngineConstructed
    /\ ErrorHandlerConstructed
    /\ FailoverInit
    /\ AnalyticsInit
    /\ EnforcementInit

NextFailover ==
    \/ initialize_failover_state
    \/ HeartbeatPeriod
    \/ \E n \in Nodes, p \in Priorities, l \in Loads, c \in Capabilities : register_node(n, p, l, c)
    \/ \E n \in Nodes : monitor_heartbeats(n)
    \/ \E n \in Nodes, l \in Loads, c \in Capabilities : initiate_failover(n, l, c)
    \/ \E n \in Nodes : recover_failed_jobs(n)

SpecFailover == InitFailover /\ [][NextFailover]_vars

\* ------------------------------------------------------------------------
\* Recovery of failed jobs by the failover manager.  Every node runs the
\* periodic loop _recover_failed_jobs, the take-over of _initiate_failover
\* and the endpoint recover_job; each of them reads the failed jobs with
\* _get_failed_jobs and calls _recover_job for a job it read.  The nodes are
\* separate processes on one database, so the query, the update that marks
\* the job and the updates after the redistribution are separate steps.
\* ------------------------------------------------------------------------

coordinationFrame == <<active_nodes, node_role, heartbeat_age, fo_pc, job_target>>

\* a row with status failed appears in the table job_states
insert_failed_job(j, retries, valid) ==
    /\ job_states[j] = NoJob
    /\ job_states' = [job_states EXCEPT ![j] =
            [status |-> "failed", retry_count |-> 0, max_retries |-> retries, checkpoint_valid |-> valid]]
    /\ UNCHANGED <<coordinationFrame, recoveries>>
    /\ UNCHANGED <<engineVars, retryVars, analyticsVars, enforcementVars>>

\* the node that runs job j reports its failure
job_fails(j) ==
    /\ job_states[j].status = "running"
    /\ job_states' = [job_states EXCEPT ![j].status = "failed"]
    /\ UNCHANGED <<coordinationFrame, recoveries>>
    /\ UNCHANGED <<engineVars, retryVars, analyticsVars, enforcementVars>>

\* FailoverManager._get_failed_jobs on node n: status = 'failed' AND
\* retry_count < max_retries; the caller keeps the JobState of job j
get_failed_jobs(n, j) ==
    /\ recoveries[n].pc = "idle"
    /\ job_states[j].status = "failed"
    /\ job_states[j].retry_count < job_states[j].max_retries
    /\ recoveries' = [recoveries EXCEPT ![n] =
            [pc |-> "read", job_id |-> j, retry_count |-> job_states[j].retry_count]]
    /\ UNCHANGED <<coordinationFrame, job_states>>
    /\ UNCHANGED <<engineVars, retryVars, analyticsVars, enforcementVars>>

\* FailoverManager._recover_job on node n up to the await of
\* _redistribute_job: the job is marked recovering; with an invalid
\* checkpoint it is marked permanently_failed and the recovery ends
recover_job(n) ==
    /\ recoveries[n].pc = "read"
    /\ IF job_states[recoveries[n].job_id].checkpoint_valid
       THEN /\ job_states' = [job_states EXCEPT ![recoveries[n].job_id].status = "recovering"]
            /\ recoveries' = [recoveries EXCEPT ![n].pc = "sending"]
       ELSE /\ job_states' = [job_states EXCEPT ![recoveries[n].job_id].status = "permanently_failed"]
            /\ recoveries' = [recoveries EXCEPT ![n] = NoRecovery]
    /\ UNCHANGED coordinationFrame
    /\ UNCHANGED <<engineVars, retryVars, analyticsVars, enforcementVars>>

\* FailoverManager._recover_job on node n after _redistribute_job returned
redistribute_job_returns(n, success) ==
    /\ recoveries[n].pc = "sending"
    /\ job_states' = [job_states EXCEPT ![recoveries[n].job_id] =
            IF success THEN [@ EXCEPT !.status = "running", !.retry_count = @ + 1]
            ELSE [@ EXCEPT !.status = "failed"]]
    /\ recoveries' = [recoveries EXCEPT ![n] = NoRecovery]
    /\ UNCHANGED coordinationFrame
    /\ UNCHANGED <<engineVars, retryVars, analyticsVars, enforcementVars>>

InitJobs ==
    /\ EngineConstructed
    /\ ErrorHandlerConstructed
    /\ FailoverInit
    /\ AnalyticsInit
    /\ EnforcementInit

RecoverySteps ==
    \/ \E n \in Nodes, j \in Jobs : get_failed_jobs(n, j)
    \/ \E n \in Nodes : recover_job(n)
    \/ \E n \in Nodes, success \in BOOLEAN : redistribute_job_returns(n, success)

NextJobs ==
    \/ \E j \in Jobs, retries \in 1..MaxJobRetries, valid \in BOOLEAN : insert_failed_job(j, retries, valid)
    \/ \E j \in Jobs : job_fails(j)
    \/ RecoverySteps

SpecJobs == InitJobs /\ [][NextJobs]_vars

\* the recovery paths keep running: a step of a recovery that can be taken
\* is taken
SpecJobsFair == SpecJobs /\ WF_vars(RecoverySteps)

\* ------------------------------------------------------------------------
\* The analytics engine: AnalyticsEngine (src/aetheriq/core/analytics.py).
\* One engine per process; the startup hook calls initialize once and the
\* shutdown hook calls shutdown once.  Time is counted in ticks while the
\* worker waits in queue.get.  The outcome of the write of a batch is an
\* input of the worker's step: the records are built and committed, or an
\* exception is raised.
\* ------------------------------------------------------------------------

\* the item process_data puts on the queue
Event(p, k) == [producer |-> p, seq |-> k]

\* a row of the table analytics; old: its timestamp lies before the
\* retention horizon; deleted: the row was deleted from the table (the
\* sequence analytics_rows keeps every row in the order of insertion)
Row(item) == [producer |-> item.producer, seq |-> item.seq, old |-> FALSE, deleted |-> FALSE]

Range(s) == {s[i] : i \in DOMAIN s}

RECURSIVE Sum(_, _)
Sum(f, S) == IF S = {} THEN 0
             ELSE LET x == CHOOSE y \in S : TRUE IN f[x] + Sum(f, S \ {x})

\* asyncio.Queue.get: the item at the left end, and the remaining queue
queue_get_last(q) == <<q[Len(q)], SubSeq(q, 1, Len(q) - 1)>>
queue_get(q) == <<Head(q), Tail(q)>>

\* CRUDBase.bulk_create: one row per item, added in the order of the list
bulk_create(rows, items) == rows \o [i \in 1..Len(items) |-> Row(items[i])]

\* CRUDBase.get_multi: a filter whose name is no attribute of the model is
\* skipped, so timestamp_lt selects nothing; offset(skip).limit(limit)
get_multi(rows, skip, limit) ==
    {i \in DOMAIN rows :
        /\ ~rows[i].deleted
        /\ Cardinality({j \in 1..i : ~rows[j].deleted}) > skip
        /\ Cardinality({j \in 1..i : ~rows[j].deleted}) <= skip + limit}

\* CRUDBase.bulk_delete
bulk_delete(rows, ids) ==
    [i \in DOMAIN rows |-> IF i \in ids THEN [rows[i] EXCEPT !.deleted = TRUE] ELSE rows[i]]

\* AnalyticsEngine.initialize
analytics_initialize ==
    /\ background_tasks = 0
    /\ is_processing' = TRUE
    /\ background_tasks' = 2
    /\ UNCHANGED <<processing_queue, batch, wait, batch_age, analytics_rows, submitted>>
    /\ UNCHANGED <<engineVars, retryVars, failoverVars, enforcementVars>>

\* AnalyticsEngine.shutdown: the background tasks are cancelled, the batch
\* the worker was collecting is lost with it
analytics_shutdown ==
    /\ is_processing
    /\ is_processing' = FALSE
    /\ batch' = <<>>
    /\ wait' = 0
    /\ batch_age' = 0
    /\ UNCHANGED <<processing_queue, analytics_rows, submitted, background_tasks>>
    /\ UNCHANGED <<engineVars, retryVars, failoverVars, enforcementVars>>

\* AnalyticsEngine.process_data by producer p: data that is no dict is
\* answered with an error, anything else is put on the queue
process_data(p, is_dict) ==
    /\ Sum(submitted, Producers) < MaxEvents
    /\ IF is_dict
       THEN /\ processing_queue' = Append(processing_queue, Event(p, submitted[p] + 1))
            /\ submitted' = [submitted EXCEPT ![p] = @ + 1]
       ELSE UNCHANGED <<processing_queue, submitted>>
    /\ UNCHANGED <<is_processing, batch, wait, batch_age, analytics_rows, background_tasks>>
    /\ UNCHANGED <<engineVars, retryVars, failoverVars, enforcementVars>>

\* _process_queue: queue.get returns an item; with it the batch either
\* stays below batch_size or is written
QueueGet(ok) ==
    /\ is_processing
    /\ processing_queue # <<>>
    /\ Len(batch) < BatchSize
    /\ processing_queue' = queue_get(processing_queue)[2]
    /\ wait' = 0
    /\ IF Len(batch) + 1 < BatchSize
       THEN /\ batch' = Append(batch, queue_get(processing_queue)[1])
            /\ UNCHANGED <<batch_age, analytics_rows>>
       ELSE /\ batch' = <<>>
            /\ batch_age' = 0
            /\ analytics_rows' =
                  IF ok THEN bulk_create(analytics_rows, Append(batch, queue_get(processing_queue)[1]))
                  ELSE analytics_rows
    /\ UNCHANGED <<is_processing, submitted, background_tasks>>
    /\ UNCHANGED <<engineVars, retryVars, failoverVars, enforcementVars>>

\* _process_queue: one tick passes while queue.get waits on the empty queue
QueueWait ==
    /\ is_processing
    /\ processing_queue = <<>>
    /\ wait < FlushInterval
    /\ wait' = wait + 1
    /\ batch_age' = IF batch = <<>> THEN 0 ELSE batch_age + 1
    /\ UNCHANGED <<is_processing, processing_queue, batch, analytics_rows, submitted, background_tasks>>
    /\ UNCHANGED <<engineVars, retryVars, failoverVars, enforcementVars>>

\* _process_queue: wait_for raises TimeoutError; a batch that is not empty
\* is written
QueueTimeout(ok) ==
    /\ is_processing
    /\ processing_queue = <<>>
    /\ wait = FlushInterval
    /\ wait' = 0
    /\ batch' = <<>>
    /\ batch_age' = 0
    /\ analytics_rows' = IF ok /\ batch # <<>> THEN bulk_create(analytics_rows, batch)
                         ELSE analytics_rows
    /\ UNCHANGED <<is_processing, processing_queue, submitted, background_tasks>>
    /\ UNCHANGED <<engineVars, retryVars, failoverVars, enforcementVars>>

\* the timestamp of the oldest row inside the retention period falls
\* behind the retention horizon
RetentionPasses ==
    /\ \E i \in DOMAIN analytics_rows : ~analytics_rows[i].old /\ ~analytics_rows[i].deleted
    /\ LET i == CHOOSE j \in DOMAIN analytics_rows :
                    /\ ~analytics_rows[j].old /\ ~analytics_rows[j].deleted
                    /\ \A k \in 1..(j - 1) : analytics_rows[k].old \/ analytics_rows[k].deleted
       IN analytics_rows' = [analytics_rows EXCEPT ![i].old = TRUE]
    /\ UNCHANGED <<is_processing, processing_queue, batch, wait, batch_age, submitted, background_tasks>>
    /\ UNCHANGED <<engineVars, retryVars, failoverVars, enforcementVars>>

\* _cleanup_old_data: one round of the daily loop
cleanup_old_data ==
    /\ is_processing
    /\ get_multi(analytics_rows, 0, DefaultLimit) # {}
    /\ analytics_rows' = bulk_delete(analytics_rows, get_multi(analytics_rows, 0, DefaultLimit))
    /\ UNCHANGED <<is_processing, processing_queue, batch, wait, batch_age, submitted, background_tasks>>
    /\ UNCHANGED <<engineVars, retryVars, failoverVars, enforcementVars>>

InitAnalytics ==
    /\ EngineConstructed
    /\ ErrorHandlerConstructed
    /\ FailoverInit
    /\ AnalyticsInit
    /\ EnforcementInit

NextAnalytics ==
    \/ analytics_initialize
    \/ analytics_shutdown
    \/ \E p \in Producers, is_dict \in BOOLEAN : process_data(p, is_dict)
    \/ \E ok \in BOOLEAN : QueueGet(ok)
    \/ QueueWait
    \/ \E ok \in BOOLEAN : QueueTimeout(ok)
    \/ RetentionPasses
    \/ cleanup_old_data

SpecAnalytics == InitAnalytics /\ [][NextAnalytics]_vars

\* ------------------------------------------------------------------------
\* Policy enforcement: EnforcementEngine (src/app/core/enforcement.py) and
\* EnforcementService (src/app/services/enforcement_service.py).  The store
\* holds the rule and policy rows; the service owns one engine, which holds
\* copies of the rows made when the service loaded them.  A request carries
\* a capability, a user and a content type; the conditions of a rule name
\* the content type they equal.
\* ------------------------------------------------------------------------

RuleIds == 1..MaxRules
PolicyIds == 1..MaxPolicies
\* class EnforcementLevel, in the order of its definition
EnforcementLevel == <<"strict", "moderate", "flexible">>
\* class EnforcementAction
EnforcementAction == {"block", "warn", "log", "require_approval", "allow"}
\* class AICapability (the members the requests and rules of the model use)
AICapability == {"natural_language", "image_generation"}
Users == {"test_user", "other_user"}
ContentTypes == {"text", "image"}

NoRule == [exists |-> FALSE]
NoPolicy == [exists |-> FALSE]

\* the rule_data a caller passes to create_rule
RuleData(capability, level, action, content_type, exceptions) ==
    [exists |-> TRUE, is_active |-> TRUE, capability |-> capability, level |-> level,
     action |-> action, content_type |-> content_type, exceptions |-> exceptions]

RuleInputs ==
    {RuleData("natural_language", "moderate", "warn", "text", {}),
     RuleData("natural_language", "flexible", "allow", "text", {})}

\* EnforcementService._db_rule_to_core
db_rule_to_core(id, row) ==
    [id |-> id, is_active |-> row.is_active, capability |-> row.capability, level |-> row.level,
     action |-> row.action, content_type |-> row.content_type, exceptions |-> row.exceptions]

RECURSIVE RulesFrom(_, _, _)
\* [self._db_rule_to_core(rule) for rule in db_policy.rules if rule.is_active]
RulesFrom(id, ids, rows) ==
    IF id > MaxRules THEN <<>>
    ELSE IF id \in ids /\ rows[id].exists /\ rows[id].is_active
         THEN <<db_rule_to_core(id, rows[id])>> \o RulesFrom(id + 1, ids, rows)
         ELSE RulesFrom(id + 1, ids, rows)

\* the CorePolicy _load_policies builds for a policy row
CorePolicy(id, row, rows) ==
    [id |-> id, rules |-> RulesFrom(1, row.rules, rows), default_action |-> row.default_action]

\* self.active_rules[rule.id] = rule on a dict that keeps insertion order
PutRule(dict, rule) ==
    IF \E i \in DOMAIN dict : dict[i].id = rule.id
    THEN [i \in DOMAIN dict |-> IF dict[i].id = rule.id THEN rule ELSE dict[i]]
    ELSE Append(dict, rule)

RECURSIVE PutRules(_, _, _)
PutRules(dict, rules, i) ==
    IF i > Len(rules) THEN dict
    ELSE PutRules(IF rules[i].is_active THEN PutRule(dict, rules[i]) ELSE dict, rules, i + 1)

\* EnforcementEngine.add_policy
add_policy(engine, policy) ==
    [policies |-> Append(engine.policies, policy),
     active_rules |-> PutRules(engine.active_rules, policy.rules, 1)]

RECURSIVE load_policies(_, _, _, _)
\* EnforcementService._load_policies: every active policy row is added to
\* the engine as it is
load_policies(engine, id, prows, rows) ==
    IF id > MaxPolicies THEN engine
    ELSE IF prows[id].exists /\ prows[id].is_active
         THEN load_policies(add_policy(engine, CorePolicy(id, prows[id], rows)), id + 1, prows, rows)
         ELSE load_policies(engine, id + 1, prows, rows)

Engine == [policies |-> engine_policies, active_rules |-> active_rules]
\* EnforcementEngine.__init__
NewEngine == [policies |-> <<>>, active_rules |-> <<>>]

ActivePolicyRows(prows) == {p \in PolicyIds : prows[p].exists /\ prows[p].is_active}

\* the engine after a reload for the rows prows, rows
Reloaded(engine, prows, rows) ==
    /\ Len(engine.policies) + Cardinality(ActivePolicyRows(prows)) <= MaxLoaded
    /\ engine_policies' = load_policies(engine, 1, prows, rows).policies
    /\ active_rules' = load_policies(engine, 1, prows, rows).active_rules

\* EnforcementEngine._matches_conditions
matches_conditions(rule, content_type) == rule.content_type = content_type

RECURSIVE FirstDecisive(_, _, _, _)
\* the inner loops of evaluate_request over the rules of one list: the action
\* of the first rule that matches and has no exception for the user
FirstDecisive(rules, i, user, content_type) ==
    IF i > Len(rules) THEN "none"
    ELSE IF matches_conditions(rules[i], content_type) /\ user \notin rules[i].exceptions
         THEN rules[i].action
         ELSE FirstDecisive(rules, i + 1, user, content_type)

\* applicable rules level by level, in the order of EnforcementLevel
ByLevel(rules) ==
    SelectSeq(rules, LAMBDA r : r.level = EnforcementLevel[1])
        \o SelectSeq(rules, LAMBDA r : r.level = EnforcementLevel[2])
        \o SelectSeq(rules, LAMBDA r : r.level = EnforcementLevel[3])

\* the fall-through of evaluate_request: max(self.policies, key=...) raises
\* ValueError on an empty list; the key looks the level up by its value in
\* EnforcementLevel[...], which knows the member names only, and raises
\* KeyError for every policy that has a rule; with keys all 0 max returns
\* the first policy
strictest_policy_default(policies) ==
    IF policies = <<>> THEN "ValueError"
    ELSE IF \E i \in DOMAIN policies : policies[i].rules # <<>> THEN "KeyError"
    ELSE policies[1].default_action

\* EnforcementEngine.evaluate_request
engine_evaluate_request(engine, capability, user, content_type) ==
    LET applicable_rules == SelectSeq(engine.active_rules, LAMBDA r : r.capability = capability)
    IN IF applicable_rules = <<>> THEN "block"
       ELSE IF FirstDecisive(ByLevel(applicable_rules), 1, user, content_type) # "none"
            THEN FirstDecisive(ByLevel(applicable_rules), 1, user, content_type)
            ELSE strictest_policy_default(engine.policies)

FreeRules == {id \in RuleIds : ~db_rules[id].exists}
FreePolicies == {id \in PolicyIds : ~db_policies[id].exists}

\* EnforcementService.__init__: a new engine, loaded from the store
EnforcementService ==
    /\ Reloaded(NewEngine, db_policies, db_rules)
    /\ UNCHANGED <<db_rules, db_policies, action_taken>>
    /\ UNCHANGED <<engineVars, retryVars, failoverVars, analyticsVars>>

\* EnforcementService.create_rule
create_rule(rule_data) ==
    /\ FreeRules # {}
    /\ db_rules' = [db_rules EXCEPT ![CHOOSE id \in FreeRules : \A o \in FreeRules : id <= o] = rule_data]
    /\ UNCHANGED <<db_policies, engine_policies, active_rules, action_taken>>
    /\ UNCHANGED <<engineVars, retryVars, failoverVars, analyticsVars>>

\* EnforcementService.create_policy
create_policy(default_action, rule_ids) ==
    /\ FreePolicies # {}
    /\ LET id == CHOOSE p \in FreePolicies : \A o \in FreePolicies : p <= o
           prows == [db_policies EXCEPT ![id] =
                        [exists |-> TRUE, is_active |-> TRUE, default_action |-> default_action,
                         rules |-> {r \in rule_ids : db_rules[r].exists}]]
       IN /\ db_policies' = prows
          /\ Reloaded(Engine, prows, db_rules)
    /\ UNCHANGED <<db_rules, action_taken>>
    /\ UNCHANGED <<engineVars, retryVars, failoverVars, analyticsVars>>

\* EnforcementService.update_rule with rule_data {key: value}
update_rule(id, key, value) ==
    /\ db_rules[id].exists
    /\ LET rows == [db_rules EXCEPT ![id] =
                       IF key = "is_active" THEN [@ EXCEPT !.is_active = value]
                       ELSE [@ EXCEPT !.exceptions = value]]
       IN /\ db_rules' = rows
          /\ Reloaded(Engine, db_policies, rows)
    /\ UNCHANGED <<db_policies, action_taken>>
    /\ UNCHANGED <<engineVars, retryVars, failoverVars, analyticsVars>>

\* EnforcementService.update_policy with policy_data {is_active: active};
\* set_rules tells whether rule_ids is given
update_policy(id, active, set_rules, rule_ids) ==
    /\ db_policies[id].exists
    /\ LET prows == [db_policies EXCEPT ![id] =
                        [@ EXCEPT !.is_active = active,
                                  !.rules = IF set_rules THEN {r \in rule_ids : db_rules[r].exists}
                                            ELSE @]]
       IN /\ db_policies' = prows
          /\ Reloaded(Engine, prows, db_rules)
    /\ UNCHANGED <<db_rules, action_taken>>
    /\ UNCHANGED <<engineVars, retryVars, failoverVars, analyticsVars>>

\* EnforcementService.evaluate_request
evaluate_request(capability, user, content_type) ==
    /\ action_taken' = engine_evaluate_request(Engine, capability, user, content_type)
    /\ UNCHANGED <<db_rules, db_policies, engine_policies, active_rules>>
    /\ UNCHANGED <<engineVars, retryVars, failoverVars, analyticsVars>>

InitEnforcement ==
    /\ EngineConstructed
    /\ ErrorHandlerConstructed
    /\ FailoverInit
    /\ AnalyticsInit
    /\ EnforcementInit

NextEnforcement ==
    \/ EnforcementService
    \/ \E rule_data \in RuleInputs : create_rule(rule_data)
    \/ \E a \in {"block", "log"}, ids \in SUBSET RuleIds : create_policy(a, ids)
    \/ \E id \in RuleIds, value \in BOOLEAN : update_rule(id, "is_active", value)
    \/ \E id \in RuleIds, value \in SUBSET {"test_user"} : update_rule(id, "exceptions", value)
    \/ \E id \in PolicyIds, active \in BOOLEAN : update_policy(id, active, FALSE, {})
    \/ \E id \in PolicyIds, ids \in {{}, {1}} : update_policy(id, TRUE, TRUE, ids)
    \/ \E c \in AICapability, u \in Users, t \in ContentTypes : evaluate_request(c, u, t)

SpecEnforcement == InitEnforcement /\ [][NextEnforcement]_vars

\* ------------------------------------------------------------------------
\* Notions of the specification used by the properties
\* ------------------------------------------------------------------------

\* execution tasks of workflow w that exist and are not cancelled
LiveLoops(w) ==
    {l \in LoopIds : execution_tasks[l].wf = w
                     /\ execution_tasks[l].pc \in {"start", "dispatched", "gather"}}

\* tasks of w whose handler is being executed by some execution task
InFlight(w) ==
    {t \in TaskIds(w) : \E l \in LiveLoops(w) :
        /\ execution_tasks[l].pc = "gather"
        /\ t \in execution_tasks[l].ready_tasks
        /\ execution_tasks[l].results[t] = "none"}

\* tasks reachable from the set S over at most n dependency edges
RECURSIVE Reach(_, _, _)
Reach(tasks, S, n) ==
    IF n = 0 THEN S
    ELSE Reach(tasks, S \cup UNION {tasks[x].dependencies \cap DOMAIN tasks : x \in S}, n - 1)

\* ancestors of task t in the dependency graph
Ancestors(tasks, t) == Reach(tasks, tasks[t].dependencies \cap DOMAIN tasks, Len(tasks))

\* the topology create is specified to accept: non-empty, no dangling
\* dependency, no cycle
ValidTopology(tasks) ==
    /\ Len(tasks) > 0
    /\ \A t \in DOMAIN tasks : tasks[t].dependencies \subseteq DOMAIN tasks
    /\ \A t \in DOMAIN tasks : t \notin Ancestors(tasks, t)

\* the step is the normal end of an execution task of workflow w
LoopEndsFor(w) ==
    /\ is_running' = is_running
    /\ store'[w].status # "cancelled"
    /\ \E l \in LoopIds :
        /\ execution_tasks[l].wf = w
        /\ execution_tasks[l].pc \in {"start", "gather"}
        /\ execution_tasks'[l].pc = "none"

\* ------------------------------------------------------------------------
\* Properties
\* ------------------------------------------------------------------------

\* C1: a task enters RUNNING only when every id in its dependencies is a task
\* of the workflow with status COMPLETED (so a task depending on a FAILED
\* task is never dispatched).
C1_RunsOnlyAfterDependenciesCompleted ==
    [][\A w \in WorkflowIds : \A t \in TaskIds(w) :
          (store[w].tasks[t].status # "running" /\ store'[w].tasks[t].status = "running")
          => \A d \in store[w].tasks[t].dependencies :
                d \in TaskIds(w) /\ store[w].tasks[d].status = "completed"]_vars

\* C2: a workflow whose status is COMPLETED, FAILED or CANCELLED keeps that
\* status in every step, and no execution task is created for it.
C2_TerminalStatusIsFinal ==
    [][\A w \in WorkflowIds :
          store[w].status \in TerminalStatus
          => /\ store'[w].status = store[w].status
             /\ \A l \in LoopIds :
                   (execution_tasks[l].pc = "none" /\ execution_tasks'[l].pc = "start")
                   => execution_tasks'[l].wf # w]_vars

\* C3: when the scheduling loop of a workflow ends, the workflow is COMPLETED
\* only if every task is COMPLETED and FAILED if some task is FAILED; with a
\* PENDING task left it is not COMPLETED.
C3_FinalStatusReflectsTasks ==
    [][\A w \in WorkflowIds :
          LoopEndsFor(w)
          => /\ store'[w].status = "completed"
                   => \A t \in TaskIds(w) : store'[w].tasks[t].status = "completed"
             /\ (\E t \in TaskIds(w) : store'[w].tasks[t].status = "failed")
                   => store'[w].status = "failed"]_vars

\* C4: create persists no workflow whose task list is empty, has a cycle or
\* has a dependency on an id outside the list.
C4_CreateRejectsInvalidTopology ==
    \A w \in WorkflowIds : Exists(w) => ValidTopology(store[w].tasks)

\* C5: at most one execution task (scheduling loop) exists per workflow.
C5_OneSchedulingLoopPerWorkflow ==
    \A w \in WorkflowIds : Cardinality(LiveLoops(w)) <= 1

\* C6: a cancel that returns success for a PENDING, RUNNING or PAUSED
\* workflow leaves the persisted status CANCELLED.
C6_CancelLeavesCancelled ==
    [][\A w \in WorkflowIds :
          (store[w].status \in {"pending", "running", "paused"} /\ cancel_workflow(w))
          => store'[w].status = "cancelled"]_vars

\* C7: once a RUNNING workflow has been cancelled, its status stays CANCELLED
\* and none of its tasks enters RUNNING.
C7_NothingRunsAfterCancel ==
    [][\A w \in WorkflowIds :
          cancel_from[w] = "running"
          => /\ store'[w].status = "cancelled"
             /\ \A t \in TaskIds(w) :
                   store'[w].tasks[t].status = "running" => store[w].tasks[t].status = "running"]_vars

\* C8: two tasks of a workflow that are RUNNING (handlers in flight) at the
\* same time are not ancestor and descendant.
C8_NoAncestorRunsConcurrently ==
    \A w \in WorkflowIds : \A a \in InFlight(w), b \in InFlight(w) :
        (store[w].tasks[a].status = "running" /\ store[w].tasks[b].status = "running")
        => a \notin Ancestors(store[w].tasks, b)

\* C9: the number of tasks RUNNING at the same time, over all workflows,
\* does not exceed the configured cap of the engine.
C9_RunningTasksWithinCap ==
    Cardinality({p \in WorkflowIds \X (1..MaxTasks) :
                    p[2] \in InFlight(p[1]) /\ store[p[1]].tasks[p[2]].status = "running"})
        <= max_concurrent_workflows

\* C10: when the engine has been shut down and every execution task has
\* ended, no workflow and no task is left RUNNING (tasks in flight at the
\* shutdown are recorded FAILED, their workflow reaches a terminal status).
C10_NothingLeftRunningAfterShutdown ==
    (shutdown_called /\ \A l \in LoopIds : execution_tasks[l].pc = "none")
    => \A w \in WorkflowIds :
          /\ store[w].status # "running"
          /\ \A t \in TaskIds(w) : store[w].tasks[t].status # "running"

\* C11: a task whose handler raises or times out is run again while retries
\* remain: it becomes FAILED only when no retry is left, that is when its
\* retry_count has reached its retries.
C11_FailedOnlyWhenNoRetryLeft ==
    [][\A w \in WorkflowIds : \A t \in TaskIds(w) :
          (store[w].tasks[t].status # "failed" /\ store'[w].tasks[t].status = "failed")
          => store'[w].tasks[t].retry_count >= store'[w].tasks[t].retries]_vars

\* C12: after the scheduling loop has processed the results of a dispatch
\* round, a task whose handler timed out in that round is FAILED with the
\* error that identifies the timeout.
C12_TimeoutErrorKept ==
    [][\A l \in LoopIds :
          ExecutionTaskResume(l)
          => \A t \in execution_tasks[l].ready_tasks :
                execution_tasks[l].results[t] = "timeout"
                => /\ store'[execution_tasks[l].wf].tasks[t].status = "failed"
                   /\ store'[execution_tasks[l].wf].tasks[t].error = "Task execution timed out"]_vars

\* C13: when the checkpoint to restore is older than the completed work the
\* workflow row holds, the restore is rejected and the data of the row is
\* unchanged.
C13_OlderCheckpointRejected ==
    [][(workflow_checkpoints # <<>>
        /\ workflow_checkpoints[Len(workflow_checkpoints)] < workflows.output_data)
       => workflows'.output_data = workflows.output_data]_vars

\* C14: the severity handle_error gives a failure depends on the error type
\* alone: connection errors high, timeouts medium, value and type errors
\* low, permission errors critical, every other type medium.
C14_SeverityByErrorType ==
    [][\A e \in ErrorTypes, anomaly \in BOOLEAN :
          handle_error(e, anomaly, TRUE)
          => pattern'.severity =
                CASE e = "ConnectionError" -> "high"
                  [] e = "TimeoutError" -> "medium"
                  [] e \in {"ValueError", "TypeError"} -> "low"
                  [] e = "PermissionError" -> "critical"
                  [] OTHER -> "medium"]_vars

\* C15: for a failure flagged as anomalous whose severity is critical or
\* high the stage is manual and no automatic recovery attempt is started.
C15_AnomalyForcesManual ==
    (is_anomaly /\ pattern.severity \in {"critical", "high"})
    => (strategy.stage = "manual" /\ slept = <<>>)

\* C16: for a failure that is not anomalous the strategy is the one of the
\* table: critical gives immediate, 3 retries, 1 s, 30 s, factor 1.5; high
\* gives delayed, 5 retries, 5 s, 300 s, factor 2.0; medium and low give
\* manual with 1 retry and zero delays.
C16_StrategyTable ==
    (strategy # NoStrategy /\ ~is_anomaly)
    => /\ pattern.severity = "critical" => strategy = RetryStrategy("immediate", 3, 15, 1000, 30000)
       /\ pattern.severity = "high" => strategy = RetryStrategy("delayed", 5, 20, 5000, 300000)
       /\ pattern.severity \in {"medium", "low"}
             => /\ strategy.stage = "manual"
                /\ strategy.max_retries = 1
                /\ strategy.initial_delay = 0
                /\ strategy.max_delay = 0

\* a critical failure that is not anomalous has been given its strategy and
\* the call has returned
C16_CriticalHandled ==
    /\ eh_pc = "done"
    /\ ~is_anomaly
    /\ pattern.severity = "critical"
    /\ strategy.stage = "immediate"

\* C17: in the immediate and delayed stages at most max_retries attempts are
\* made; the first sleep is initial_delay and each later sleep is the one
\* before it times backoff_factor, capped at max_delay, so the sleeps do not
\* decrease and do not exceed max_delay, also after an attempt that raised.
C17_BackoffDelays ==
    strategy.stage \in {"immediate", "delayed"}
    => /\ attempt <= strategy.max_retries
       /\ Len(slept) <= strategy.max_retries
       /\ \A k \in 1..Len(slept) :
             /\ slept[k] = IF k = 1 THEN strategy.initial_delay
                           ELSE Min((slept[k - 1] * strategy.backoff_factor) \div 10,
                                    strategy.max_delay)
             /\ slept[k] <= strategy.max_delay
             /\ k > 1 => slept[k - 1] <= slept[k]

\* the delayed stage has made all its attempts without success
C17_AllDelayedAttemptsMade ==
    /\ eh_pc = "done"
    /\ strategy.stage = "delayed"
    /\ returned.recovery = "failed"
    /\ Len(slept) = strategy.max_retries
    /\ slept[Len(slept)] > slept[1]

\* C18: when max_retries recovery attempts have all been unsuccessful, the
\* pattern's resolution status is permanently_failed and the workflow is
\* FAILED, not left in an intermediate recovery status.
C18_ExhaustedRetriesFailPermanently ==
    (eh_pc = "done" /\ returned.recovery = "failed")
    => /\ pattern.resolution_status = "permanently_failed"
       /\ workflows.status = "failed"

\* C19: the manual stage makes no recovery attempt, leaves the workflow row
\* as it is, enqueues one notification and leaves the pattern with
\* resolution status pending_manual_intervention.
C19_ManualStageRecordsAndNotifies ==
    [][(eh_pc = "idle" /\ returned'.recovery = "manual_intervention_required")
       => /\ slept' = <<>>
          /\ workflows' = workflows
          /\ notifications' = notifications + 1
          /\ pattern'.resolution_status = "pending_manual_intervention"]_vars

\* C20: handle_error never raises: whatever the error and whichever
\* persistence call fails, the call ends by returning a record.
C20_HandleErrorReturnsRecord ==
    /\ returned.status # "raised"
    /\ eh_pc = "done" => returned.status \in {"success", "error"}

\* handle_error has returned although the insert into error_patterns failed
C20_ReturnedAfterFailedLogging ==
    /\ eh_pc = "done"
    /\ pattern # NoPattern
    /\ error_patterns = <<>>
    /\ returned.status = "success"


\* C21: the status stored for a workflow is always one of the values of
\* WorkflowStatus, also while a recovery is under way and after a recovery
\* that failed.
C21_StoredStatusInEnum ==
    workflows.status # "absent" => workflows.status \in WorkflowStatus

\* ------------------------------------------------------------------------
\* Properties of the failover manager (SpecFailover)
\* ------------------------------------------------------------------------

PrimaryEntries(nodes) == {i \in DOMAIN nodes : nodes[i].role = "primary"}

\* n has the highest priority of the list and, among the nodes of that
\* priority, the lowest load
HighestRanked(nodes, n) ==
    /\ InRoster(nodes, n)
    /\ \A i \in DOMAIN nodes :
          \/ Entry(nodes, n).priority > nodes[i].priority
          \/ Entry(nodes, n).priority = nodes[i].priority /\ Entry(nodes, n).load <= nodes[i].load

\* C22: a node that decides to become primary has the highest priority of
\* the node list and the lowest load among the nodes of that priority.
C22_ElectedIsHighestRanked ==
    [][\A n \in Nodes :
          (fo_pc[n] = "idle" /\ fo_pc'[n] = "primary") => HighestRanked(active_nodes, n)]_vars

\* C23: once every node has written the role it decided, the node list
\* holds at most one record with the role primary.
C23_AtMostOnePrimary ==
    (\A n \in Nodes : fo_pc[n] = "idle") => Cardinality(PrimaryEntries(active_nodes)) <= 1

\* C24: while the node list holds a primary (no node ever stops in this
\* model, so the primary is running), no node initiates a failover.
C24_NoFailoverWhilePrimaryRuns ==
    [][PrimaryEntries(active_nodes) # {} =>
          \A n \in Nodes : ~(fo_pc[n] = "idle" /\ fo_pc'[n] # "idle")]_vars

\* C25: the node a failed job is sent to is able to run the job, and no
\* available node able to run it has a smaller load.
C25_TargetCapableAndLeastLoaded ==
    [][\A n \in Nodes :
          (recover_failed_jobs(n) /\ job_target' # 0) =>
              /\ Entry(active_nodes, job_target').capability > 0
              /\ \A i \in DOMAIN active_nodes :
                    (active_nodes[i].capability > 0 /\ active_nodes[i].load < 8)
                        => Entry(active_nodes, job_target').load <= active_nodes[i].load]_vars


\* ------------------------------------------------------------------------
\* Properties of the analytics engine (SpecAnalytics)
\* ------------------------------------------------------------------------

\* C26: the analytics queue never holds more events than its capacity.
C26_QueueWithinCapacity == Len(processing_queue) <= QueueCapacity

\* C27: the batch the worker collects never has more than batch_size
\* events, and its first event has never waited longer than flush_interval
\* for the write.
C27_BatchWrittenInTime ==
    /\ Len(batch) <= BatchSize
    /\ batch_age <= FlushInterval

\* C28: a step of the worker keeps every event of its batch: the event is
\* written by the step or is still in the batch after it.
C28_FailedBatchKept ==
    [][((\E ok \in BOOLEAN : QueueGet(ok)) \/ (\E ok \in BOOLEAN : QueueTimeout(ok))) =>
          \A i \in DOMAIN batch :
              \/ batch[i] \in Range(batch')
              \/ \E j \in DOMAIN analytics_rows' :
                    /\ j > Len(analytics_rows)
                    /\ Event(analytics_rows'[j].producer, analytics_rows'[j].seq) = batch[i]]_vars

\* C29: the rows of one producer are written in the order the producer
\* submitted the events, within a batch and across batches, and an event
\* is never written while an earlier event of its producer still waits in
\* the queue or the batch.
C29_ProducerOrderKept ==
    /\ \A i, j \in DOMAIN analytics_rows :
          (i < j /\ analytics_rows[i].producer = analytics_rows[j].producer)
              => analytics_rows[i].seq < analytics_rows[j].seq
    /\ \A i \in DOMAIN analytics_rows :
          \A e \in Range(processing_queue) \cup Range(batch) :
              e.producer = analytics_rows[i].producer => analytics_rows[i].seq < e.seq

\* witness of C29: two batches were written and two of the rows come from
\* the same producer
C29_TwoBatchesOfOneProducer ==
    /\ Len(analytics_rows) > BatchSize
    /\ \E i, j \in DOMAIN analytics_rows :
          i < j /\ analytics_rows[i].producer = analytics_rows[j].producer

\* C30: a round of the cleaner deletes only rows whose timestamp is older
\* than the retention horizon.
C30_CleanerDeletesOnlyOld ==
    [][cleanup_old_data =>
          \A i \in DOMAIN analytics_rows :
              (~analytics_rows[i].deleted /\ analytics_rows'[i].deleted) => analytics_rows[i].old]_vars


\* C32: the number of workflow executions in progress at the same time
\* never exceeds max_concurrent_workflows.
C32_ExecutionsWithinCap ==
    Cardinality(UNION {LiveLoops(w) : w \in WorkflowIds}) <= max_concurrent_workflows


\* the scheduler dispatches task t of workflow w
Dispatch(w, t) ==
    \E l \in LoopIds :
        /\ ExecutionTaskStart(l) \/ ExecutionTaskResume(l)
        /\ execution_tasks'[l].wf = w
        /\ execution_tasks'[l].pc = "dispatched"
        /\ t \in execution_tasks'[l].ready_tasks

\* task t of w is PENDING, its dependencies are all COMPLETED, and an
\* execution task of w waits for a running task that is no ancestor of t
ReadyBehindUnrelated(w, t) ==
    /\ store[w].status = "running"
    /\ store[w].tasks[t].status = "pending"
    /\ store[w].tasks[t].dependencies # {}
    /\ \A d \in store[w].tasks[t].dependencies :
          d \in TaskIds(w) /\ store[w].tasks[d].status = "completed"
    /\ \E u \in InFlight(w) : u \notin Ancestors(store[w].tasks, t)

\* C33: a PENDING task whose dependencies are all COMPLETED can be
\* dispatched while a task that is not among its ancestors is still
\* RUNNING.
C33_ReadyTaskNeedNotWait ==
    \A w \in WorkflowIds : \A t \in TaskIds(w) :
        ReadyBehindUnrelated(w, t) => ENABLED Dispatch(w, t)


\* ------------------------------------------------------------------------
\* Properties of the recovery of failed jobs (SpecJobs)
\* ------------------------------------------------------------------------

\* the nodes whose recovery of job j waits for its redistribution
Recovering(j) == {n \in Nodes : recoveries[n].pc = "sending" /\ recoveries[n].job_id = j}

\* C34: at most one recovery of a job is under way at a time.
C34_OneRecoveryPerJob ==
    \A j \in Jobs : Cardinality(Recovering(j)) <= 1

\* C35: the retry_count of a job never exceeds its max_retries.
C35_RetryCountWithinMax ==
    \A j \in Jobs : job_states[j].retry_count <= job_states[j].max_retries

\* C36: a job in state failed eventually is running or permanently_failed.
C36_FailedJobLeavesFailed ==
    \A j \in Jobs :
        (job_states[j].status = "failed")
            ~> (job_states[j].status \in {"running", "permanently_failed"})

\* C37: every record of the node list carries the fields that election and
\* target selection read.
C37_RosterRecordsComplete ==
    \A i \in DOMAIN active_nodes : active_nodes[i].registered

\* C38: the construction of a FailoverManager leaves the node list and the
\* heartbeat value as they were.
C38_ConstructionKeepsSharedState ==
    [][initialize_failover_state =>
          (active_nodes' = active_nodes /\ heartbeat_age' = heartbeat_age)]_vars


\* ------------------------------------------------------------------------
\* Properties of policy enforcement (SpecEnforcement)
\* ------------------------------------------------------------------------

\* the rules of the engine for the capability whose conditions match
Matching(capability, content_type) ==
    {i \in DOMAIN active_rules :
        /\ active_rules[i].capability = capability
        /\ matches_conditions(active_rules[i], content_type)}

\* position of a level in the order of strictness
Strictness(level) == CHOOSE k \in DOMAIN EnforcementLevel : EnforcementLevel[k] = level

\* C31: when the user is in the exceptions of a matching rule, the request
\* is answered with an action: the action of a strictest matching rule
\* without exception for the user or, when there is none, the default
\* action of a policy (BLOCK without a policy).
C31_ExceptionFallsThroughToAction ==
    [][\A c \in AICapability, u \in Users, t \in ContentTypes :
          (/\ evaluate_request(c, u, t)
           /\ \E i \in Matching(c, t) : u \in active_rules[i].exceptions)
          => LET decisive == {i \in Matching(c, t) : u \notin active_rules[i].exceptions}
             IN /\ action_taken' \in EnforcementAction
                /\ decisive # {} =>
                      \E i \in decisive :
                          /\ action_taken' = active_rules[i].action
                          /\ \A j \in decisive :
                                Strictness(active_rules[i].level) <= Strictness(active_rules[j].level)
                /\ decisive = {} =>
                      action_taken' \in {"block"} \cup
                          {engine_policies[k].default_action : k \in DOMAIN engine_policies}]_vars

\* the active rules of the active policies of the store, as the engine
\* would hold them
StoreRules ==
    {db_rule_to_core(r, db_rules[r]) :
        r \in {x \in RuleIds : /\ db_rules[x].exists /\ db_rules[x].is_active
                                /\ \E p \in ActivePolicyRows(db_policies) : x \in db_policies[p].rules}}

\* C39: the engine holds exactly the active rules of the active policies of
\* the store, and each active policy once.
C39_EngineMirrorsStore ==
    /\ Range(active_rules) = StoreRules
    /\ {engine_policies[k].id : k \in DOMAIN engine_policies} = ActivePolicyRows(db_policies)
    /\ \A k, l \in DOMAIN engine_policies :
          engine_policies[k].id = engine_policies[l].id => k = l

====
